---- MODULE Spec2Model ----
(***************************************************************************)
(* A model of basemodel_to_csv (synthetic_data_gen.ipynb, the "Saving      *)
(* Data" cell): the record-to-CSV flattening routine.  Text is modelled as *)
(* a sequence of one-character strings, so that the csv writer's quoting   *)
(* and a csv reader's parsing are computed character by character.         *)
(***************************************************************************)
EXTENDS Naturals, Sequences, FiniteSets

VARIABLES
    model,        \* the schema class passed as `model`: its declared fields, in order
    data,         \* the list of records passed as `data`
    fs,           \* what the path `filename` holds: [exists, content]
    writable,     \* whether open(filename, 'w') can succeed
    csvfile,      \* the file object of the with-block: "unopened", "open", "closed"
    opens,        \* how many times the running call has opened the destination
    field_names,  \* list(model.__fields__.keys())
    pc,           \* where the call stands
    idx,          \* position of the for-loop over data (1-based)
    row,          \* the dict the inner loop has built for data[idx]
    error,        \* the exception the call raised, "none" when it did not
    calls,        \* how many calls have been started
    outputs,      \* what the destination held when each call ended, in call order
    before        \* what the destination held when the running call started

vars == <<model, data, fs, writable, csvfile, opens, field_names, pc, idx, row,
          error, calls, outputs, before>>

(***************************************************************************)
(* Bounds of the model.                                                    *)
(***************************************************************************)
MaxRecords == 2
MaxCalls == 2
MaxListLen == 2

(***************************************************************************)
(* Characters and texts.                                                   *)
(***************************************************************************)
COMMA == ","
SPACE == " "
DQUOTE == "\""
CR == "\r"
LF == "\n"

SeqUpTo(S, n) == UNION {[1..k -> S] : k \in 0..n}

\* str(None), str(True), str(False)
NoneText == <<"N", "o", "n", "e">>
TrueText == <<"T", "r", "u", "e">>
FalseText == <<"F", "a", "l", "s", "e">>

(***************************************************************************)
(* Python values a record field can hold.                                  *)
(***************************************************************************)
NoneV == [kind |-> "none"]
StrV(s) == [kind |-> "str", s |-> s]
BoolV(b) == [kind |-> "bool", b |-> b]
ListV(es) == [kind |-> "list", elems |-> es]

\* a str() that renders None as the empty text
PyStr_NoneEmpty(value) ==
    CASE value.kind = "none" -> <<>>
      [] value.kind = "bool" -> (IF value.b THEN TrueText ELSE FalseText)
      [] value.kind = "str" -> value.s

\* repr() in place of str(): a string is rendered between quotes
PyStr_Repr(value) ==
    CASE value.kind = "none" -> NoneText
      [] value.kind = "bool" -> (IF value.b THEN TrueText ELSE FalseText)
      [] value.kind = "str" -> <<"'">> \o value.s \o <<"'">>

\* str(value) of a non-list value
PyStr(value) ==
    CASE value.kind = "none" -> NoneText
      [] value.kind = "bool" -> (IF value.b THEN TrueText ELSE FalseText)
      [] value.kind = "str" -> value.s

\* a join on ',' alone
ListSep_CommaOnly == <<COMMA>>

\* the separator of ', '.join
ListSep == <<COMMA, SPACE>>

\* a join that puts the separator after every part, the last one too
RECURSIVE Join_Trailing(_, _)
Join_Trailing(sep, parts) ==
    IF parts = <<>> THEN <<>>
    ELSE parts[1] \o sep \o Join_Trailing(sep, Tail(parts))

\* sep.join(parts)
RECURSIVE Join(_, _)
Join(sep, parts) ==
    IF parts = <<>> THEN <<>>
    ELSE IF Len(parts) = 1 THEN parts[1]
    ELSE parts[1] \o sep \o Join(sep, Tail(parts))

\* map(str, value)
MapStr(elems) == [k \in 1..Len(elems) |-> PyStr(elems[k])]

\* the body of the inner loop: isinstance(value, list) ? ', '.join(...) : str(value)
RenderValue(value) ==
    IF value.kind = "list" THEN Join(ListSep, MapStr(value.elems))
    ELSE PyStr(value)

(***************************************************************************)
(* Records: the attributes an instance holds, as <<name, value>> pairs in  *)
(* the order the instance holds them.                                      *)
(***************************************************************************)
AttrNames(record) == {record[k][1] : k \in 1..Len(record)}
HasAttr(record, field) == field \in AttrNames(record)
GetAttr(record, field) ==
    record[CHOOSE k \in 1..Len(record) : record[k][1] = field][2]

\* model.__fields__.keys(), as a list
FieldNames(m) == [k \in 1..Len(m) |-> m[k].name]
Range(s) == {s[k] : k \in 1..Len(s)}

\* the inner loop completes only if getattr finds every field
Renderable(record, names) == \A k \in 1..Len(names) : HasAttr(record, names[k])
\* a row built from the record's own attribute order instead of getattr by name
RenderRow_ByPosition(record, names) ==
    [f \in Range(names) |->
        RenderValue(record[CHOOSE k \in 1..Len(names) : names[k] = f][2])]

RenderRow(record, names) ==
    [f \in Range(names) |-> RenderValue(GetAttr(record, f))]

(***************************************************************************)
(* csv.DictWriter with the default (excel) dialect: QUOTE_MINIMAL,         *)
(* doublequote, delimiter ',', lineterminator '\r\n'.                      *)
(***************************************************************************)
LineTerminator == <<CR, LF>>
NeedsQuote(cell) == \E k \in 1..Len(cell) : cell[k] \in {COMMA, DQUOTE, CR, LF}

RECURSIVE DoubleQuotes(_)
DoubleQuotes(cell) ==
    IF cell = <<>> THEN <<>>
    ELSE (IF Head(cell) = DQUOTE THEN <<DQUOTE, DQUOTE>> ELSE <<Head(cell)>>)
         \o DoubleQuotes(Tail(cell))

\* a writer that never quotes (quoting=csv.QUOTE_NONE without an escape)
QuoteCell_Never(cell) == cell

QuoteCell(cell) ==
    IF NeedsQuote(cell) THEN <<DQUOTE>> \o DoubleQuotes(cell) \o <<DQUOTE>>
    ELSE cell

\* writer.writerow on a list of cells; a lone empty cell is written as ""
FormatRow(cells) ==
    (IF Len(cells) = 1 /\ cells[1] = <<>> THEN <<DQUOTE, DQUOTE>>
     ELSE Join(<<COMMA>>, [k \in 1..Len(cells) |-> QuoteCell(cells[k])]))
    \o LineTerminator

\* DictWriter._dict_to_list: the row's cells in fieldnames order
DictToList(r, names) == [k \in 1..Len(names) |-> r[names[k]]]

(***************************************************************************)
(* Inputs of a call.  A schema is the ordered field declaration of a       *)
(* BaseModel subclass; the schemas below follow the notebook's classes:    *)
(* str fields, List[str] fields and Optional fields.                       *)
(***************************************************************************)
Field(name, kind, optional) == [name |-> name, kind |-> kind, optional |-> optional]

IdName == <<"i", "d">>
TagsName == <<"t", "a", "g", "s">>
ExtraName == <<"x">>

Schemas ==
    { <<Field(IdName, "scalar", FALSE)>>,
      <<Field(IdName, "scalar", FALSE), Field(TagsName, "list", FALSE)>>,
      <<Field(TagsName, "list", TRUE), Field(IdName, "scalar", TRUE)>> }

A == <<"a">>
B == <<"b">>

\* values used where only the shape of the call matters
PlainValues == {StrV(A), ListV(<<StrV(A), StrV(B)>>)}

\* texts with the characters the csv dialect treats specially
Texts ==
    { <<>>, A, <<SPACE>>, <<COMMA>>, <<"a", COMMA, SPACE, "b">>, <<DQUOTE>>,
      <<"a", DQUOTE, "b">>, <<"a", LF, "b">>, <<CR, LF>>, NoneText }
ElemTexts == { <<>>, A, B, <<SPACE>>, <<"a", COMMA>>, <<COMMA, SPACE>> }

ScalarValues == {StrV(t) : t \in Texts} \cup {NoneV, BoolV(TRUE), BoolV(FALSE)}
ListValues == {ListV(es) : es \in SeqUpTo({StrV(t) : t \in ElemTexts} \cup {NoneV}, MaxListLen)}
Values == ScalarValues \cup ListValues

\* instances of the schema m with their field values drawn from V
Conforming(m, V) ==
    { [k \in 1..Len(m) |-> <<m[k].name, f[k]>>] : f \in [1..Len(m) -> V] }
Reversed(record) == [k \in 1..Len(record) |-> record[Len(record) + 1 - k]]
WithoutLast(record) == SubSeq(record, 1, Len(record) - 1)
WithExtra(record) == Append(record, <<ExtraName, StrV(B)>>)

\* instances of other classes: attributes held in another order, one declared
\* field missing, one undeclared field added
PlainRecords(m) ==
    LET C == Conforming(m, PlainValues)
    IN  C \cup {Reversed(r) : r \in C} \cup {WithoutLast(r) : r \in C}
          \cup {WithExtra(r) : r \in C}

\* one field holds any value, the others a plain string
ValueRecords(m) ==
    { [k \in 1..Len(m) |-> <<m[k].name, IF k = j THEN v ELSE StrV(A)>>] :
        j \in 1..Len(m), v \in Values }

\* what the destination may hold before the first call: nothing (no such
\* file), an empty file, or an earlier, longer table
OldTable == <<"o", "l", "d", COMMA, "x", CR, LF, "1", COMMA, "2", CR, LF,
              "3", COMMA, "4", CR, LF, "5", COMMA, "6", CR, LF, "7", COMMA, "8", CR, LF>>
NoFile == [exists |-> FALSE, content |-> <<>>]
File(content) == [exists |-> TRUE, content |-> content]
PriorFiles == {NoFile, File(<<>>), File(OldTable)}

InitCall(m, d, f, w) ==
    /\ model = m
    /\ data = d
    /\ fs = f
    /\ writable = w
    /\ csvfile = "unopened"
    /\ opens = 0
    /\ field_names = <<>>
    /\ pc = "start"
    /\ idx = 0
    /\ row = <<>>
    /\ error = "none"
    /\ calls = 1
    /\ outputs = <<>>
    /\ before = f

Init ==
    \/ \E m \in Schemas, f \in PriorFiles, w \in BOOLEAN :
         \E d \in SeqUpTo(PlainRecords(m), MaxRecords) : InitCall(m, d, f, w)
    \/ \E m \in Schemas : \E r \in ValueRecords(m) : InitCall(m, <<r>>, NoFile, TRUE)

(***************************************************************************)
(* basemodel_to_csv, statement by statement.                               *)
(***************************************************************************)
\* the file opened in mode 'a': what the destination holds is kept
OpenOk_Append ==
    /\ pc = "start"
    /\ writable
    /\ field_names' = FieldNames(model)
    /\ fs' = File(fs.content)
    /\ csvfile' = "open"
    /\ opens' = opens + 1
    /\ pc' = "header"
    /\ UNCHANGED <<model, data, writable, idx, row, error, calls, outputs, before>>

\* field_names = list(model.__fields__.keys()); with open(filename, 'w', newline=''):
\* mode 'w' creates the file or truncates it; csv.DictWriter(csvfile, field_names)
OpenOk ==
    /\ pc = "start"
    /\ writable
    /\ field_names' = FieldNames(model)
    /\ fs' = File(<<>>)
    /\ csvfile' = "open"
    /\ opens' = opens + 1
    /\ pc' = "header"
    /\ UNCHANGED <<model, data, writable, idx, row, error, calls, outputs, before>>

\* an open() that truncates the destination before it fails
OpenFail_Truncates ==
    /\ pc = "start"
    /\ ~writable
    /\ field_names' = FieldNames(model)
    /\ fs' = File(<<>>)
    /\ error' = "OSError"
    /\ pc' = "failed"
    /\ UNCHANGED <<model, data, writable, csvfile, opens, idx, row, calls, outputs, before>>

\* open() raises OSError: the with-block is never entered
OpenFail ==
    /\ pc = "start"
    /\ ~writable
    /\ field_names' = FieldNames(model)
    /\ error' = "OSError"
    /\ pc' = "failed"
    /\ UNCHANGED <<model, data, fs, writable, csvfile, opens, idx, row, calls, outputs, before>>

\* a call that forgets writer.writeheader()
WriteHeader_Skipped ==
    /\ pc = "header"
    /\ idx' = 1
    /\ pc' = "loop"
    /\ UNCHANGED <<model, data, fs, writable, csvfile, opens, field_names, row, error,
                   calls, outputs, before>>

\* writer.writeheader()
WriteHeader ==
    /\ pc = "header"
    /\ fs' = File(fs.content \o FormatRow(field_names))
    /\ idx' = 1
    /\ pc' = "loop"
    /\ UNCHANGED <<model, data, writable, csvfile, opens, field_names, row, error,
                   calls, outputs, before>>

\* for record in data: the next record, or the end of the with-block, which
\* closes the file
LoopNext ==
    /\ pc = "loop"
    /\ idx <= Len(data)
    /\ pc' = "render"
    /\ UNCHANGED <<model, data, fs, writable, csvfile, opens, field_names, idx, row,
                   error, calls, outputs, before>>

LoopEnd ==
    /\ pc = "loop"
    /\ idx > Len(data)
    /\ csvfile' = "closed"
    /\ pc' = "done"
    /\ UNCHANGED <<model, data, fs, writable, opens, field_names, idx, row, error,
                   calls, outputs, before>>

\* row = {}; for field in field_names: row[field] = ...
RenderOk ==
    /\ pc = "render"
    /\ Renderable(data[idx], field_names)
    /\ row' = RenderRow(data[idx], field_names)
    /\ pc' = "write"
    /\ UNCHANGED <<model, data, fs, writable, csvfile, opens, field_names, idx, error,
                   calls, outputs, before>>

\* the file opened without a with-block: the exception leaves it open
RenderFail_LeavesOpen ==
    /\ pc = "render"
    /\ ~Renderable(data[idx], field_names)
    /\ error' = "AttributeError"
    /\ pc' = "failed"
    /\ UNCHANGED <<model, data, fs, writable, csvfile, opens, field_names, idx, row,
                   calls, outputs, before>>

\* a failure handler that removes the file written so far
RenderFail_Removes ==
    /\ pc = "render"
    /\ ~Renderable(data[idx], field_names)
    /\ error' = "AttributeError"
    /\ csvfile' = "closed"
    /\ fs' = NoFile
    /\ pc' = "failed"
    /\ UNCHANGED <<model, data, writable, opens, field_names, idx, row, calls,
                   outputs, before>>

\* getattr(record, field) raises AttributeError; the with-block closes the file
\* and the exception leaves the call
RenderFail ==
    /\ pc = "render"
    /\ ~Renderable(data[idx], field_names)
    /\ error' = "AttributeError"
    /\ csvfile' = "closed"
    /\ pc' = "failed"
    /\ UNCHANGED <<model, data, fs, writable, opens, field_names, idx, row, calls,
                   outputs, before>>

\* a loop body that writes the row twice
WriteRow_Twice ==
    /\ pc = "write"
    /\ csvfile = "open"
    /\ fs' = File(fs.content \o FormatRow(DictToList(row, field_names))
                           \o FormatRow(DictToList(row, field_names)))
    /\ idx' = idx + 1
    /\ pc' = "loop"
    /\ UNCHANGED <<model, data, writable, csvfile, opens, field_names, row, error,
                   calls, outputs, before>>

\* writer.writerow(row)
WriteRow ==
    /\ pc = "write"
    /\ csvfile = "open"
    /\ fs' = File(fs.content \o FormatRow(DictToList(row, field_names)))
    /\ idx' = idx + 1
    /\ pc' = "loop"
    /\ UNCHANGED <<model, data, writable, csvfile, opens, field_names, row, error,
                   calls, outputs, before>>

\* the call has returned or raised: what it left at the destination
Return ==
    /\ pc \in {"done", "failed"}
    /\ outputs' = Append(outputs, fs)
    /\ pc' = "returned"
    /\ UNCHANGED <<model, data, fs, writable, csvfile, opens, field_names, idx, row,
                   error, calls, before>>

\* the same call made again, with the same schema, records and destination
CallAgain ==
    /\ pc = "returned"
    /\ calls < MaxCalls
    /\ calls' = calls + 1
    /\ csvfile' = "unopened"
    /\ opens' = 0
    /\ field_names' = <<>>
    /\ idx' = 0
    /\ row' = <<>>
    /\ error' = "none"
    /\ pc' = "start"
    /\ before' = fs
    /\ UNCHANGED <<model, data, fs, writable, outputs>>

Next ==
    \/ OpenOk
    \/ OpenFail
    \/ WriteHeader
    \/ LoopNext
    \/ LoopEnd
    \/ RenderOk
    \/ RenderFail
    \/ WriteRow
    \/ Return
    \/ CallAgain

Spec == Init /\ [][Next]_vars

(***************************************************************************)
(* The reading side: csv.reader with the same dialect over the file opened *)
(* with newline='', and str.split.  Both are computed from the characters  *)
(* of the destination, independently of the writer above.                  *)
(***************************************************************************)
ParserStart == [st |-> "START_RECORD", cell |-> <<>>, cells |-> <<>>, rows |-> <<>>]
SaveField(p) == [p EXCEPT !.cells = Append(p.cells, p.cell), !.cell = <<>>]
AddChar(p, c) == [p EXCEPT !.cell = Append(p.cell, c)]
To(p, st) == [p EXCEPT !.st = st]

\* one character of a line
ProcessChar(p, c) ==
    LET q == IF p.st = "START_RECORD" /\ c \notin {CR, LF} THEN To(p, "START_FIELD") ELSE p
    IN  CASE q.st = "START_RECORD" -> To(q, "EAT_CRNL")
          [] q.st = "START_FIELD" ->
               (IF c \in {CR, LF} THEN To(SaveField(q), "EAT_CRNL")
                ELSE IF c = DQUOTE THEN To(q, "IN_QUOTED_FIELD")
                ELSE IF c = COMMA THEN SaveField(q)
                ELSE To(AddChar(q, c), "IN_FIELD"))
          [] q.st = "IN_FIELD" ->
               (IF c \in {CR, LF} THEN To(SaveField(q), "EAT_CRNL")
                ELSE IF c = COMMA THEN To(SaveField(q), "START_FIELD")
                ELSE AddChar(q, c))
          [] q.st = "IN_QUOTED_FIELD" ->
               (IF c = DQUOTE THEN To(q, "QUOTE_IN_QUOTED_FIELD") ELSE AddChar(q, c))
          [] q.st = "QUOTE_IN_QUOTED_FIELD" ->
               (IF c = DQUOTE THEN To(AddChar(q, c), "IN_QUOTED_FIELD")
                ELSE IF c = COMMA THEN To(SaveField(q), "START_FIELD")
                ELSE IF c \in {CR, LF} THEN To(SaveField(q), "EAT_CRNL")
                ELSE To(AddChar(q, c), "IN_FIELD"))
          [] q.st = "EAT_CRNL" -> (IF c \in {CR, LF} THEN q ELSE To(q, "ERROR"))
          [] q.st = "ERROR" -> q

\* the end of a line: outside a quoted field the record is complete
EmitRow(p) == [p EXCEPT !.st = "START_RECORD", !.rows = Append(p.rows, p.cells), !.cells = <<>>]
ProcessEOL(p) ==
    CASE p.st \in {"START_RECORD", "EAT_CRNL"} -> EmitRow(p)
      [] p.st \in {"START_FIELD", "IN_FIELD", "QUOTE_IN_QUOTED_FIELD"} -> EmitRow(SaveField(p))
      [] p.st \in {"IN_QUOTED_FIELD", "ERROR"} -> p

\* a line ends after '\n', after a '\r' that no '\n' follows, and at the end of the text
LineEndsAt(s, i) == s[i] = LF \/ (s[i] = CR /\ (i = Len(s) \/ s[i + 1] # LF)) \/ i = Len(s)

\* the parser after the character at i, and after the end of the line if one ends there
StepAt(s, i, p) ==
    LET q == ProcessChar(p, s[i])
    IN  IF LineEndsAt(s, i) THEN ProcessEOL(q) ELSE q

\* the parser fed the characters lo..hi in order; csv.Error ends the reading
RECURSIVE Feed(_, _, _, _)
Feed(s, lo, hi, p) ==
    IF p.st = "ERROR" \/ lo > hi THEN p
    ELSE IF lo = hi THEN StepAt(s, lo, p)
    ELSE LET mid == (lo + hi) \div 2
         IN  Feed(s, mid + 1, hi, Feed(s, lo, mid, p))

\* list(csv.reader(f)): the rows of the text, each a sequence of cells; a
\* quoted field the text leaves open is closed by the end of the text
ReadCsv(s) ==
    LET p == Feed(s, 1, Len(s), ParserStart)
    IN  IF p.st = "IN_QUOTED_FIELD" THEN Append(p.rows, Append(p.cells, p.cell)) ELSE p.rows

\* s.split(sep)
RECURSIVE SplitFrom(_, _, _, _, _)
SplitFrom(s, sep, i, cur, acc) ==
    IF i > Len(s) THEN Append(acc, cur)
    ELSE IF i + Len(sep) - 1 <= Len(s) /\ SubSeq(s, i, i + Len(sep) - 1) = sep
         THEN SplitFrom(s, sep, i + Len(sep), <<>>, Append(acc, cur))
         ELSE SplitFrom(s, sep, i + 1, Append(cur, s[i]), acc)
Split(s, sep) == SplitFrom(s, sep, 1, <<>>, <<>>)

\* the reader and split on fixed texts, as CPython's csv and str.split read them
ReaderExamples ==
    /\ ReadCsv(<<"a", CR, LF, DQUOTE, DQUOTE, CR, LF>>) = << <<A>>, << <<>> >> >>
    /\ ReadCsv(<<"a", CR, LF, CR, LF, "b", CR, LF>>) = << <<A>>, <<>>, <<B>> >>
    /\ ReadCsv(<<COMMA, CR, LF>>) = << << <<>>, <<>> >> >>
    /\ ReadCsv(<<DQUOTE, "a", LF, "b", DQUOTE, COMMA, SPACE, CR, LF>>)
         = << << <<"a", LF, "b">>, <<SPACE>> >> >>
    /\ ReadCsv(<<DQUOTE, "a", CR, "b", DQUOTE, COMMA, DQUOTE, "q", DQUOTE, DQUOTE, DQUOTE, CR, LF>>)
         = << << <<"a", CR, "b">>, <<"q", DQUOTE>> >> >>
    /\ Split(<<>>, ListSep) = << <<>> >>
    /\ Split(<<"a", COMMA, SPACE, COMMA, SPACE, "b">>, ListSep) = <<A, <<>>, B>>

(***************************************************************************)
(* Properties.                                                             *)
(***************************************************************************)
\* the header has been written by the running call
HeaderWritten == opens = 1 /\ pc \in {"loop", "render", "write", "done", "failed", "returned"}

\* the table read back from the destination
Table == ReadCsv(fs.content)

\* C1: a successful call leaves exactly len(data) + 1 rows at the destination:
\* the header row first, then one row per record; with no records the
\* destination holds the header row alone.
C1_RowCount ==
    pc = "done" =>
        LET t == Table
        IN  /\ Len(t) = Len(data) + 1
            /\ t[1] = FieldNames(model)
            /\ (data = <<>> => t = <<FieldNames(model)>>)

C1_Witness == pc = "done" /\ Len(data) = 2 /\ Len(Table) = 3

C1_WitnessEmpty == pc = "done" /\ data = <<>> /\ Len(Table) = 1

\* C2: after every write (the header, then each row) the header row lists the
\* schema's field names in declaration order, and every data row written so
\* far holds one cell per schema field, the k-th cell being the rendering of
\* the k-th declared field of its record, whatever order the record holds
\* its attributes in.
C2_ColumnOrder ==
    pc = "loop" =>
        LET t == Table
        IN  /\ Len(t) >= 1
            /\ Len(t) <= Len(data) + 1
            /\ t[1] = [k \in 1..Len(model) |-> model[k].name]
            /\ \A j \in 2..Len(t) :
                 /\ Len(t[j]) = Len(model)
                 /\ \A k \in 1..Len(model) :
                      t[j][k] = RenderValue(GetAttr(data[j - 1], model[k].name))

\* a two-field record holding its attributes in the reverse of the schema
\* order, with different values, has been written
C2_Witness ==
    /\ pc = "done"
    /\ Len(model) = 2
    /\ \E j \in 1..Len(data) :
         /\ Len(data[j]) = 2
         /\ data[j][1][1] = model[2].name
         /\ data[j][1][2] # data[j][2][2]
         /\ Len(Table) > j

\* C3: a record missing a declared field, at any index, makes the call fail
\* and leaves no partial file: the destination is as it was before the call
\* (no header, no rows of earlier records).
C3_NoPartialFile ==
    (pc = "failed" /\ error = "AttributeError") => fs = before

\* where the k-th element's text starts in the rendering of a list
RECURSIVE PartStart(_, _)
PartStart(parts, k) ==
    IF k = 1 THEN 1 ELSE PartStart(parts, k - 1) + Len(parts[k - 1]) + 2

\* the cell is the texts `parts`, in order, with ", " between neighbours
JoinedInOrder(cell, parts) ==
    LET n == Len(parts)
    IN  /\ Len(cell) = PartStart(parts, n) + Len(parts[n]) - 1
        /\ \A k \in 1..n :
             SubSeq(cell, PartStart(parts, k), PartStart(parts, k) + Len(parts[k]) - 1)
                = parts[k]
        /\ \A k \in 1..(n - 1) :
             /\ cell[PartStart(parts, k) + Len(parts[k])] = ","
             /\ cell[PartStart(parts, k) + Len(parts[k]) + 1] = " "

\* C4: a list value is rendered as the texts of its elements, in their
\* original order, joined with ", "; a one-element list as that element
\* alone; the empty list as the empty text.
C4_ListRendering ==
    pc = "write" =>
        \A n \in 1..Len(field_names) :
            LET value == GetAttr(data[idx], field_names[n])
                cell == row[field_names[n]]
            IN  value.kind = "list" =>
                    LET parts == [k \in 1..Len(value.elems) |-> PyStr(value.elems[k])]
                    IN  /\ (Len(parts) = 0 => cell = <<>>)
                        /\ (Len(parts) = 1 => cell = parts[1])
                        /\ (Len(parts) >= 1 => JoinedInOrder(cell, parts))

\* a list of two different elements has been rendered
C4_Witness ==
    /\ pc = "write"
    /\ \E n \in 1..Len(field_names) :
         LET value == GetAttr(data[idx], field_names[n])
         IN  /\ value.kind = "list"
             /\ Len(value.elems) = 2
             /\ value.elems[1] # value.elems[2]
             /\ Len(row[field_names[n]]) > 2

\* the sentinel: str(None)
Sentinel == <<"N", "o", "n", "e">>

\* C5: an absent (None) value is rendered as one fixed non-empty sentinel,
\* the same for every field and record, and the empty list is rendered as
\* the empty text, which differs from the sentinel.
C5_NullSentinel ==
    pc = "write" =>
        \A n \in 1..Len(field_names) :
            LET value == GetAttr(data[idx], field_names[n])
                cell == row[field_names[n]]
            IN  /\ (value.kind = "none" => cell = Sentinel /\ cell # <<>>)
                /\ ((value.kind = "list" /\ value.elems = <<>>) =>
                        cell = <<>> /\ cell # Sentinel)

\* a None value of a declared-optional field has been rendered
C5_Witness ==
    /\ pc = "write"
    /\ \E n \in 1..Len(model) :
         /\ model[n].optional
         /\ GetAttr(data[idx], model[n].name).kind = "none"
         /\ row[model[n].name] = Sentinel

HasSpecial(cell) == \E k \in 1..Len(cell) : cell[k] \in {",", "\n", "\r", "\""}
OccursIn(pat, s) ==
    \E i \in 1..(Len(s) - Len(pat) + 1) : SubSeq(s, i, i + Len(pat) - 1) = pat

\* C6: right after a row is written, every cell of it whose text holds a
\* comma, a newline or a double quote stands in the destination enclosed in
\* quotes with its quotes doubled, and a csv reader reads the row back with
\* one cell per schema field, each cell verbatim.
C6_Quoting ==
    (pc = "loop" /\ idx >= 2) =>
        LET t == Table
        IN  /\ Len(t) = idx
            /\ Len(t[idx]) = Len(field_names)
            /\ \A k \in 1..Len(field_names) :
                 LET cell == row[field_names[k]]
                 IN  /\ t[idx][k] = cell
                     /\ (HasSpecial(cell) =>
                            OccursIn(<<"\"">> \o DoubleQuotes(cell) \o <<"\"">>, fs.content))

\* a two-field row whose scalar cell is "a, b" has been written and read back
C6_Witness ==
    /\ pc = "loop"
    /\ idx = 2
    /\ Len(field_names) = 2
    /\ \E k \in 1..2 :
         /\ GetAttr(data[1], field_names[k]) = StrV(<<"a", ",", " ", "b">>)
         /\ Table[2][k] = <<"a", ",", " ", "b">>

\* a list of strings none of which holds the separator ", "
IsStrList(value) ==
    /\ value.kind = "list"
    /\ \A i \in 1..Len(value.elems) : value.elems[i].kind = "str"
NoCollision(value) ==
    \A i \in 1..Len(value.elems) : ~OccursIn(<<",", " ">>, value.elems[i].s)
ElemTextsOf(value) == [i \in 1..Len(value.elems) |-> value.elems[i].s]

\* the cell of the table t read back for field k of record j, split on ", "
SplitCell(t, j, k) == Split(t[j + 1][k], <<",", " ">>)
CellWritten(t, j, k) == Len(t) > j /\ Len(t[j + 1]) >= k

\* C7 as claimed: after a successful call, every list of strings free of the
\* separator, the empty list included, is reconstructed exactly by reading
\* the file back and splitting its cell on ", ".
C7_ListRoundTrip ==
    pc = "done" =>
        \A j \in 1..Len(data), k \in 1..Len(model) :
            LET value == GetAttr(data[j], model[k].name)
            IN  (IsStrList(value) /\ NoCollision(value)) =>
                    CellWritten(Table, j, k) /\ SplitCell(Table, j, k) = ElemTextsOf(value)

\* C7 as amended: every non-empty list of strings free of the separator
\* (lists holding an empty string included) is reconstructed exactly, in
\* order; the empty list is read back as the one-element list holding the
\* empty string.
C7_NonEmptyListRoundTrip ==
    pc = "done" =>
        LET t == Table
        IN  \A j \in 1..Len(data), k \in 1..Len(model) :
                LET value == GetAttr(data[j], model[k].name)
                IN  (IsStrList(value) /\ NoCollision(value)) =>
                        /\ CellWritten(t, j, k)
                        /\ (value.elems # <<>> => SplitCell(t, j, k) = ElemTextsOf(value))
                        /\ (value.elems = <<>> => SplitCell(t, j, k) = << <<>> >>)

\* a two-element list whose second element is the empty string has been
\* written and read back
C7_Witness ==
    /\ pc = "done"
    /\ \E j \in 1..Len(data), k \in 1..Len(model) :
         LET value == GetAttr(data[j], model[k].name)
         IN  /\ IsStrList(value)
             /\ Len(value.elems) = 2
             /\ value.elems[1].s = <<"a">>
             /\ value.elems[2].s = <<>>
             /\ CellWritten(Table, j, k)
             /\ SplitCell(Table, j, k) = << <<"a">>, <<>> >>

\* the table of the call: the header, then the rendering of each record
ExpectedRows ==
    <<FieldNames(model)>> \o
    [j \in 1..Len(data) |->
        [k \in 1..Len(model) |-> RenderValue(GetAttr(data[j], model[k].name))]]

\* C8: after a successful call the destination exists and holds exactly the
\* table of that call, whatever it held before: nothing of the earlier
\* content remains and nothing is appended to it.
C8_Overwrite ==
    pc = "done" => (fs.exists /\ Table = ExpectedRows)

\* a call has succeeded on a destination that held a longer, earlier table
C8_Witness ==
    /\ pc = "done"
    /\ calls = 1
    /\ before = File(OldTable)
    /\ Len(data) >= 1
    /\ Len(fs.content) < Len(before.content)

\* C9: the same call made again leaves the destination with the same
\* content, byte for byte, as the call before it.
C9_Idempotent ==
    \A k \in 1..(Len(outputs) - 1) : outputs[k + 1] = outputs[k]

\* two successful calls over two records have ended
C9_Witness ==
    /\ pc = "returned"
    /\ Len(outputs) = 2
    /\ error = "none"
    /\ Len(data) = 2
    /\ Len(outputs[2].content) > 0

\* C10: no row is written for a record that holds a field the schema does
\* not declare (the call fails instead).
C10_ExtraFieldRejected ==
    HeaderWritten =>
        \A j \in 1..Len(data) :
            idx > j => AttrNames(data[j]) \subseteq Range(FieldNames(model))

\* C11: the null sentinel is rendered only for a field declared optional: a
\* None value of a non-optional field is never rendered (the call fails).
C11_NullOnlyWhenOptional ==
    pc = "write" =>
        \A n \in 1..Len(model) :
            GetAttr(data[idx], model[n].name).kind = "none" => model[n].optional

\* the value's runtime kind disagrees with the field's declared kind
KindMismatch(field, value) ==
    \/ field.kind = "list" /\ value.kind \notin {"list", "none"}
    \/ field.kind = "scalar" /\ value.kind = "list"

\* C12: a value whose runtime kind disagrees with its field's declared kind
\* (a list field holding a non-list, a scalar field holding a list) is never
\* rendered by its runtime kind (the call fails with a RenderError).
C12_KindMismatchRejected ==
    pc = "write" =>
        \A n \in 1..Len(model) : ~KindMismatch(model[n], GetAttr(data[idx], model[n].name))

\* C13: when the destination cannot be opened the call fails with an I/O
\* error, and it has then written no header, read or rendered no record,
\* and left the destination as it was.
C13_OpenFailsFirst ==
    (~writable /\ pc # "start") =>
        /\ error = "OSError"
        /\ pc \in {"failed", "returned"}
        /\ fs = before
        /\ opens = 0
        /\ csvfile = "unopened"
        /\ idx = 0
        /\ row = <<>>

\* the open has failed on a call with records, over an earlier table
C13_Witness ==
    /\ pc = "failed"
    /\ error = "OSError"
    /\ Len(data) >= 1
    /\ before = File(OldTable)

\* C14: the destination is opened at most once per call; once the call has
\* returned or failed it is not open; and nothing is written to it once it
\* is closed.
C14_ClosedOnExit ==
    [][/\ opens' <= 1
       /\ (pc' \in {"done", "failed", "returned"} => csvfile' # "open")
       /\ (csvfile = "closed" => fs' = fs)]_vars

\* the call has failed while rendering the second record, and the file is closed
C14_Witness ==
    /\ pc = "failed"
    /\ error = "AttributeError"
    /\ idx = 2
    /\ opens = 1
    /\ csvfile = "closed"

\* the rendering of one record, as the row of cells the schema asks for
RowOf(record) ==
    [k \in 1..Len(model) |-> RenderValue(GetAttr(record, model[k].name))]

\* C15: every write adds exactly one row after the rows already there: the
\* header onto the empty file, then, the loop standing at record idx, the
\* rendering of data[idx], after which the loop stands at idx + 1; the loop
\* position never moves otherwise within a call.
C15_SequentialPass ==
    [][/\ (fs' # fs /\ pc # "start") =>
             LET t == ReadCsv(fs.content)
                 u == ReadCsv(fs'.content)
             IN  /\ Len(u) = Len(t) + 1
                 /\ SubSeq(u, 1, Len(t)) = t
                 /\ pc \in {"header", "write"}
                 /\ (pc = "header" => t = <<>> /\ u[1] = FieldNames(model) /\ idx' = 1)
                 /\ (pc = "write" =>
                        /\ Len(t) = idx
                        /\ idx <= Len(data)
                        /\ u[idx + 1] = RowOf(data[idx])
                        /\ idx' = idx + 1)
       /\ ((idx' # idx /\ pc # "returned") => fs' # fs)]_vars

\* a call over two different records has ended with their rows in record order
C15_Witness ==
    /\ pc = "done"
    /\ Len(data) = 2
    /\ data[1] # data[2]
    /\ Len(Table) = 3
    /\ Table[2] = RowOf(data[1])
    /\ Table[3] = RowOf(data[2])
    /\ Table[2] # Table[3]

HasComma(text) == \E i \in 1..Len(text) : text[i] = ","

\* C16 as claimed: whenever an element of a list of strings holds a comma,
\* the list is not reconstructed by reading its cell back and splitting it
\* on ", ".
C16_CommaCorrupts ==
    pc = "done" =>
        LET t == Table
        IN  \A j \in 1..Len(data), k \in 1..Len(model) :
                LET value == GetAttr(data[j], model[k].name)
                IN  (IsStrList(value) /\ \E i \in 1..Len(value.elems) : HasComma(value.elems[i].s)) =>
                        /\ CellWritten(t, j, k)
                        /\ SplitCell(t, j, k) # ElemTextsOf(value)

\* C16 as amended: the elements are joined unescaped, and whenever an element
\* of a list of strings holds the separator ", " itself, reading the cell
\* back and splitting it on ", " yields more parts than the list has
\* elements, so the list is not reconstructed.
C16_SeparatorCorrupts ==
    pc = "done" =>
        LET t == Table
        IN  \A j \in 1..Len(data), k \in 1..Len(model) :
                LET value == GetAttr(data[j], model[k].name)
                IN  (IsStrList(value) /\ ~NoCollision(value)) =>
                        /\ CellWritten(t, j, k)
                        /\ \A i \in 1..Len(value.elems) : OccursIn(value.elems[i].s, t[j + 1][k])
                        /\ Len(SplitCell(t, j, k)) > Len(value.elems)
                        /\ SplitCell(t, j, k) # ElemTextsOf(value)

\* a list holding the element ", " has been written
C16_Witness ==
    /\ pc = "done"
    /\ \E j \in 1..Len(data), k \in 1..Len(model) :
         LET value == GetAttr(data[j], model[k].name)
         IN  /\ IsStrList(value)
             /\ Len(value.elems) = 2
             /\ value.elems[1].s = <<"a">>
             /\ value.elems[2].s = <<",", " ">>
             /\ CellWritten(Table, j, k)
             /\ Len(SplitCell(Table, j, k)) = 3

\* C17: from the writing of the header on, the destination holds the header
\* followed by exactly the rows of the records before the loop position, in
\* order; so a call that fails on the record at idx leaves the header and
\* the idx - 1 rows before it.
C17_PrefixInvariant ==
    HeaderWritten =>
        LET t == Table
        IN  /\ Len(t) = idx
            /\ t[1] = FieldNames(model)
            /\ \A j \in 1..(idx - 1) : t[j + 1] = RowOf(data[j])

\* the call has failed on its second record and left the header and one row
C17_Witness ==
    /\ pc = "failed"
    /\ error = "AttributeError"
    /\ idx = 2
    /\ Len(Table) = 2
    /\ Table[2] = RowOf(data[1])

\* C18: right after the open, before the header is written and before any
\* record is looked at, the destination is empty whatever it held; so a call
\* that fails on a record has not kept the earlier table.
C18_TruncatedOnOpen ==
    /\ (pc = "header" => fs = File(<<>>) /\ idx = 0 /\ row = <<>>)
    /\ ((pc = "failed" /\ error = "AttributeError" /\ before = File(OldTable)) =>
            /\ fs # before
            /\ ~OccursIn(<<"o", "l", "d">>, fs.content))

\* a call over an earlier table has failed on its second record
C18_Witness ==
    /\ pc = "failed"
    /\ error = "AttributeError"
    /\ before = File(OldTable)
    /\ idx = 2
    /\ fs.content # <<>>

\* C19: a None value and the string "None" are written as the same cell:
\* either is read back as the four characters None.
C19_SentinelCollision ==
    (pc = "loop" /\ idx >= 2) =>
        LET t == Table
        IN  \A k \in 1..Len(field_names) :
                LET value == GetAttr(data[idx - 1], field_names[k])
                IN  (value = NoneV \/ value = StrV(<<"N", "o", "n", "e">>)) =>
                        /\ Len(t) = idx
                        /\ Len(t[idx]) >= k
                        /\ t[idx][k] = <<"N", "o", "n", "e">>
                        /\ row[field_names[k]] = <<"N", "o", "n", "e">>

\* the string "None" has been written and read back as the sentinel
C19_Witness ==
    /\ pc = "loop"
    /\ idx = 2
    /\ \E k \in 1..Len(field_names) :
         /\ GetAttr(data[1], field_names[k]) = StrV(<<"N", "o", "n", "e">>)
         /\ Table[2][k] = RenderValue(NoneV)
====
